---------------------------- MODULE Spec2Model ----------------------------
(***************************************************************************)
(* Model of src/src/day2.rs: the nom-based parser of "Game" records        *)
(* (games_parser and the combinators it is built from), the partial order  *)
(* on Rgb, and the two aggregations part1 and part2.                       *)
(*                                                                         *)
(* Text is a sequence of one-character strings.  A u32 or u64 value is a   *)
(* little-endian sequence of bytes without leading zero bytes (<<>> is 0), *)
(* so that the 32- and 64-bit widths of the program are kept exactly.      *)
(***************************************************************************)
EXTENDS Integers, Sequences, FiniteSets, TLC

(***************************************************************************)
(* Machine integers                                                        *)
(***************************************************************************)
U32Bytes == 4
U64Bytes == 8
Radix == 2 ^ 8

RECURSIVE Norm(_)
Norm(s) ==
    IF s = <<>> THEN <<>>
    ELSE IF s[Len(s)] = 0 THEN Norm(SubSeq(s, 1, Len(s) - 1))
    ELSE s

RECURSIVE AddC(_, _, _)
AddC(a, b, c) ==
    IF a = <<>> /\ b = <<>> THEN (IF c = 0 THEN <<>> ELSE <<c>>)
    ELSE LET x == IF a = <<>> THEN 0 ELSE Head(a)
             y == IF b = <<>> THEN 0 ELSE Head(b)
             s == x + y + c
         IN  <<s % Radix>> \o AddC(IF a = <<>> THEN <<>> ELSE Tail(a),
                                   IF b = <<>> THEN <<>> ELSE Tail(b),
                                   s \div Radix)

\* the mathematical sum a + b
BigAdd(a, b) == Norm(AddC(a, b, 0))

RECURSIVE MulC(_, _, _)
MulC(a, k, c) ==
    IF a = <<>> THEN (IF c = 0 THEN <<>> ELSE <<c>>)
    ELSE LET s == Head(a) * k + c
         IN  <<s % Radix>> \o MulC(Tail(a), k, s \div Radix)

RECURSIVE BigMul(_, _)
\* the mathematical product a * b
BigMul(a, b) ==
    IF b = <<>> THEN <<>>
    ELSE BigAdd(Norm(MulC(a, Head(b), 0)),
                LET r == BigMul(a, Tail(b)) IN IF r = <<>> THEN <<>> ELSE <<0>> \o r)

RECURSIVE LeqSameLen(_, _)
LeqSameLen(a, b) ==
    IF a = <<>> THEN TRUE
    ELSE IF a[Len(a)] # b[Len(b)] THEN a[Len(a)] < b[Len(b)]
    ELSE LeqSameLen(SubSeq(a, 1, Len(a) - 1), SubSeq(b, 1, Len(b) - 1))

\* a <= b
BigLeq(a, b) ==
    IF Len(a) # Len(b) THEN Len(a) < Len(b) ELSE LeqSameLen(a, b)

\* Ord::max
BigMax(a, b) == IF BigLeq(a, b) THEN b ELSE a

\* whether v is a value of the type that is n bytes wide
Fits(v, n) == Len(v) <= n

\* v modulo 2^(8n): what an unchecked operation of that width keeps
Wrap(v, n) == IF Len(v) <= n THEN v ELSE Norm(SubSeq(v, 1, n))

RECURSIVE Big(_)
\* the value of a small natural number
Big(n) == IF n = 0 THEN <<>> ELSE <<n % Radix>> \o Big(n \div Radix)

\* the largest value of the type that is n bytes wide
MaxOf(n) == [k \in 1..n |-> Radix - 1]

(***************************************************************************)
(* An arithmetic result: overflow panics in a build with overflow checks   *)
(* (debug-assertions) and wraps in a build without them.                   *)
(***************************************************************************)
Val(v) == [panic |-> FALSE, val |-> v]
Panicked == [panic |-> TRUE, val |-> <<>>]

Checked(v, n, checks) ==
    IF Fits(v, n) THEN Val(v)
    ELSE IF checks THEN Panicked
    ELSE Val(Wrap(v, n))

\* a + b in the type that is n bytes wide
AddW(a, b, n, checks) == Checked(BigAdd(a, b), n, checks)
\* a * b in the type that is n bytes wide
MulW(a, b, n, checks) == Checked(BigMul(a, b), n, checks)

(***************************************************************************)
(* nom results: IResult<&str, O> is Ok((rest, out)) or Err(Err::Error(_)). *)
(* No parser of the file uses cut, so every error is recoverable.  panic   *)
(* records that a closure run by the parser has panicked.                  *)
(***************************************************************************)
Ok(rest, out) == [ok |-> TRUE, rest |-> rest, out |-> out, panic |-> FALSE]
OkP(rest, out, panic) == [ok |-> TRUE, rest |-> rest, out |-> out, panic |-> panic]
Err == [ok |-> FALSE, rest |-> <<>>, out |-> <<>>, panic |-> FALSE]

Drop(i, n) == SubSeq(i, n + 1, Len(i))

GameTag == <<"G", "a", "m", "e">>
Red == <<"r", "e", "d">>
Green == <<"g", "r", "e", "e", "n">>
Blue == <<"b", "l", "u", "e">>
Digits == {"0", "1", "2", "3", "4", "5", "6", "7", "8", "9"}
DigitVal(c) ==
    CASE c = "0" -> 0 [] c = "1" -> 1 [] c = "2" -> 2 [] c = "3" -> 3
      [] c = "4" -> 4 [] c = "5" -> 5 [] c = "6" -> 6 [] c = "7" -> 7
      [] c = "8" -> 8 [] c = "9" -> 9

\* nom::bytes::complete::tag
tag(t, i) ==
    IF Len(i) >= Len(t) /\ SubSeq(i, 1, Len(t)) = t
    THEN Ok(Drop(i, Len(t)), t)
    ELSE Err

RECURSIVE space0(_)
\* nom::character::complete::space0: the input after its leading spaces and tabs
space0(i) ==
    IF i # <<>> /\ Head(i) \in {" ", "\t"} THEN space0(Tail(i)) ELSE i

\* the match on a parser's result: k on Ok((rest, out)), d on Err(Err::Error(_))
Match(r, k(_), d) == IF r.ok THEN k(r) ELSE d

\* delimited(space0, inner, space0)
ws(inner(_), i) ==
    Match(inner(space0(i)), LAMBDA r : OkP(space0(r.rest), r.out, r.panic), Err)

game_tag_parser(i) == ws(LAMBDA j : tag(GameTag, j), i)

colon_parser(i) == tag(<<":">>, i)

\* alt((tag("red"), tag("blue"), tag("green")))
color_parser(i) ==
    Match(tag(Red, i), LAMBDA r : r,
    Match(tag(Blue, i), LAMBDA r : r,
    tag(Green, i)))

RECURSIVE DigitRun(_)
\* the number of leading ASCII digits
DigitRun(i) == IF i # <<>> /\ Head(i) \in Digits THEN 1 + DigitRun(Tail(i)) ELSE 0

SplitAt(i, n) == IF n = 0 THEN Err ELSE Ok(Drop(i, n), SubSeq(i, 1, n))

\* nom::character::complete::digit1
digit1(i) == SplitAt(i, DigitRun(i))

RECURSIVE FromDigits(_, _)
\* the value of the decimal digits ds read after the value acc
FromDigits(ds, acc) ==
    IF ds = <<>> THEN acc
    ELSE FromDigits(Tail(ds), Norm(MulC(acc, 10, DigitVal(Head(ds)))))

\* s.parse::<u32>(): digits whose value is no u32 are an error
ParseU32(rest, v) == IF Fits(v, U32Bytes) THEN Ok(rest, v) ELSE Err

\* map_res(digit1, |s| s.parse::<u32>())
game_id_parser(i) ==
    Match(digit1(i), LAMBDA r : ParseU32(r.rest, FromDigits(r.out, <<>>)), Err)

\* tuple((ws(game_id_parser), ws(color_parser)))
color_number_parser(i) ==
    Match(ws(game_id_parser, i), LAMBDA n :
    Match(ws(color_parser, n.rest), LAMBDA c :
    Ok(c.rest, [count |-> n.out, color |-> c.out]), Err), Err)

RgbDefault == [red |-> <<>>, green |-> <<>>, blue |-> <<>>]

\* the field a color word names; "none" is the arm _ => ()
FieldOf(color) ==
    IF color = Red THEN "red"
    ELSE IF color = Green THEN "green"
    ELSE IF color = Blue THEN "blue"
    ELSE "none"

\* acc.<field> += count
AddTo(acc, field, sum) ==
    IF sum.panic THEN [acc EXCEPT !.panic = TRUE]
    ELSE [acc EXCEPT !.rgb[field] = sum.val]

\* FoldStep with the count assigned to the field instead of added to it
FoldStepAssigns(acc, field, count, checks) ==
    IF acc.panic \/ field = "none" THEN acc
    ELSE [acc EXCEPT !.rgb[field] = count]

\* the closure of the fold: one (count, color) pair added to acc
FoldStep(acc, field, count, checks) ==
    IF acc.panic \/ field = "none" THEN acc
    ELSE AddTo(acc, field, AddW(acc.rgb[field], count, U32Bytes, checks))

RECURSIVE FoldPairs(_, _, _)
\* pairs.into_iter().fold(Rgb::default(), ...)
FoldPairs(pairs, acc, checks) ==
    IF pairs = <<>> THEN acc
    ELSE FoldPairs(Tail(pairs),
                   FoldStep(acc, FieldOf(Head(pairs).color), Head(pairs).count, checks),
                   checks)

RECURSIVE PairsLoop(_, _)
\* the loop of separated_list1(ws(tag(",")), color_number_parser): a separator
\* that no pair follows is left unconsumed
PairsLoop(i, res) ==
    Match(ws(LAMBDA j : tag(<<",">>, j), i), LAMBDA s :
    Match(color_number_parser(s.rest), LAMBDA f :
    PairsLoop(f.rest, Append(res, f.out)), Ok(i, res)), Ok(i, res))

\* the Rgb of the pairs of a round
Folded(l, acc) == OkP(l.rest, acc.rgb, acc.panic)

\* map(separated_list1(ws(tag(",")), color_number_parser), fold)
set_parser(i, checks) ==
    Match(color_number_parser(i), LAMBDA f :
    Match(PairsLoop(f.rest, <<f.out>>), LAMBDA l :
    Folded(l, FoldPairs(l.out, [rgb |-> RgbDefault, panic |-> FALSE], checks)),
    Err), Err)

RECURSIVE RoundsLoop(_, _, _, _)
\* the loop of separated_list0(ws(tag(";")), set_parser)
RoundsLoop(i, res, panic, checks) ==
    Match(ws(LAMBDA j : tag(<<";">>, j), i), LAMBDA s :
    Match(set_parser(s.rest, checks), LAMBDA f :
    RoundsLoop(f.rest, Append(res, f.out), panic \/ f.panic, checks),
    OkP(i, res, panic)), OkP(i, res, panic))

\* get_color_set with separated_list1 in the place of separated_list0
get_color_set_list1(i, checks) ==
    Match(set_parser(i, checks), LAMBDA f :
    RoundsLoop(f.rest, <<f.out>>, f.panic, checks), Err)

\* separated_list0(ws(tag(";")), set_parser): no first round is an empty list
get_color_set(i, checks) ==
    Match(set_parser(i, checks), LAMBDA f :
    RoundsLoop(f.rest, <<f.out>>, f.panic, checks), Ok(i, <<>>))

\* newline_parser without the alternative "\r\n"
newline_parser_lf(i) == tag(<<"\n">>, i)

\* alt((tag("\r\n"), tag("\n")))
newline_parser(i) ==
    Match(tag(<<"\r", "\n">>, i), LAMBDA r : r, tag(<<"\n">>, i))

\* map(tuple((ws(game_tag_parser), ws(game_id_parser), ws(colon_parser),
\*            get_color_set)), |(_, id, _, rounds)| Game { id, rounds })
game_parser(i, checks) ==
    Match(ws(game_tag_parser, i), LAMBDA t :
    Match(ws(game_id_parser, t.rest), LAMBDA n :
    Match(ws(colon_parser, n.rest), LAMBDA c :
    Match(get_color_set(c.rest, checks), LAMBDA r :
    OkP(r.rest, [id |-> n.out, rounds |-> r.out], r.panic), Err), Err), Err), Err)

RECURSIVE GamesLoop(_, _, _, _)
\* the loop of separated_list0(newline_parser, game_parser)
GamesLoop(i, res, panic, checks) ==
    Match(newline_parser(i), LAMBDA s :
    Match(game_parser(s.rest, checks), LAMBDA f :
    GamesLoop(f.rest, Append(res, f.out), panic \/ f.panic, checks),
    OkP(i, res, panic)), OkP(i, res, panic))

\* separated_list0(newline_parser, game_parser)(input)
GamesList(input, checks) ==
    Match(game_parser(input, checks), LAMBDA f :
    GamesLoop(f.rest, <<f.out>>, f.panic, checks), Ok(input, <<>>))

\* the match of games_parser: Ok((_, games)) => Ok(games), Err(e) => Err(anyhow!(..))
Outcome(r) ==
    IF r.panic THEN [kind |-> "Panic", games |-> <<>>]
    ELSE IF r.ok THEN [kind |-> "Ok", games |-> r.out]
    ELSE [kind |-> "Err", games |-> <<>>]

games_parser(input, checks) == Outcome(GamesList(input, checks))

\* the match of input_generator: Ok(games) => games, Err(e) => panic!(..)
Unwrapped(r) == IF r.kind = "Ok" THEN r ELSE [kind |-> "Panic", games |-> <<>>]

input_generator(input, checks) == Unwrapped(games_parser(input, checks))

(***************************************************************************)
(* Rgb's partial order and the two aggregations                            *)
(***************************************************************************)
\* partial_cmp with Some(Greater) for a value that dominates the other
partial_cmp_total(a, b) ==
    IF a.red = b.red /\ a.green = b.green /\ a.blue = b.blue THEN "Equal"
    ELSE IF BigLeq(a.red, b.red) /\ BigLeq(a.green, b.green) /\ BigLeq(a.blue, b.blue)
    THEN "Less"
    ELSE IF BigLeq(b.red, a.red) /\ BigLeq(b.green, a.green) /\ BigLeq(b.blue, a.blue)
    THEN "Greater"
    ELSE "None"

\* impl PartialOrd for Rgb: Some(Equal), Some(Less) or None
partial_cmp(a, b) ==
    IF BigLeq(a.red, b.red) /\ BigLeq(a.green, b.green) /\ BigLeq(a.blue, b.blue)
    THEN IF a.red = b.red /\ a.green = b.green /\ a.blue = b.blue
         THEN "Equal"
         ELSE "Less"
    ELSE "None"

\* PartialOrd::le, the meaning of a <= b
le(a, b) == partial_cmp(a, b) \in {"Less", "Equal"}
\* PartialOrd::ge, the meaning of a >= b
ge(a, b) == partial_cmp(a, b) \in {"Greater", "Equal"}

MaxRed == 12
MaxGreen == 13
MaxBlue == 14
max_cubes == [red |-> Big(MaxRed), green |-> Big(MaxGreen), blue |-> Big(MaxBlue)]

\* AllWithin with < in the place of <=
AllWithinStrict(rounds) ==
    \A k \in 1..Len(rounds) : partial_cmp(rounds[k], max_cubes) = "Less"

\* game.rounds.iter().all(|rgb| rgb <= &max_cubes)
AllWithin(rounds) == \A k \in 1..Len(rounds) : le(rounds[k], max_cubes)

RECURSIVE SumW(_, _, _, _)
\* Iterator::sum over values of the type that is n bytes wide, from acc on
SumW(vals, acc, n, checks) ==
    IF vals = <<>> \/ acc.panic THEN acc
    ELSE SumW(Tail(vals), AddW(acc.val, Head(vals), n, checks), n, checks)

RECURSIVE FeasibleIds(_)
\* .filter(all rounds within max_cubes).map(|game| game.id)
FeasibleIds(games) ==
    IF games = <<>> THEN <<>>
    ELSE (IF AllWithin(Head(games).rounds) THEN <<Head(games).id>> ELSE <<>>)
         \o FeasibleIds(Tail(games))

\* part1: the u32 sum of the ids of the games all of whose rounds are within max_cubes
part1(games, checks) == SumW(FeasibleIds(games), Val(<<>>), U32Bytes, checks)

RECURSIVE MaxFold(_, _)
\* the fold of part2: the component-wise maximum over the rounds, from acc on
MaxFold(rounds, acc) ==
    IF rounds = <<>> THEN acc
    ELSE MaxFold(Tail(rounds),
                 [red |-> BigMax(acc.red, Head(rounds).red),
                  green |-> BigMax(acc.green, Head(rounds).green),
                  blue |-> BigMax(acc.blue, Head(rounds).blue)])

\* u64::from(max_red) * u64::from(max_green) * u64::from(max_blue)
Power(m, checks) ==
    LET rg == MulW(m.red, m.green, U64Bytes, checks)
    IN  IF rg.panic THEN rg ELSE MulW(rg.val, m.blue, U64Bytes, checks)

RECURSIVE SumPowers(_, _, _)
\* the u64 sum of the games' products, from acc on; a product is computed when
\* the sum asks for it
SumPowers(games, acc, checks) ==
    IF games = <<>> \/ acc.panic THEN acc
    ELSE LET p == Power(MaxFold(Head(games).rounds, RgbDefault), checks)
         IN  IF p.panic THEN p
             ELSE SumPowers(Tail(games),
                            AddW(acc.val, p.val, U64Bytes, checks), checks)

\* part2: the u64 sum over the games of the product of the three maxima
part2(games, checks) == SumPowers(games, Val(<<>>), checks)

(***************************************************************************)
(* Input texts.  A text is described by its lines; a line by its header,   *)
(* its id and its rounds of (count, color) pairs; a pair by the digits of  *)
(* its count, the value v these digits denote, and its color word.         *)
(***************************************************************************)
MaxGames == 2
MaxPairs == 3

Purple == <<"p", "u", "r", "p", "l", "e">>
MaxDigits == <<"4", "2", "9", "4", "9", "6", "7", "2", "9", "5">>
OverDigits == <<"4", "2", "9", "4", "9", "6", "7", "2", "9", "6">>
OverValue == <<0, 0, 0, 0, 1>>

Pr(n, v, c) == [n |-> n, v |-> v, c |-> c]
Blue3 == Pr(<<"3">>, Big(3), Blue)
Blue6 == Pr(<<"6">>, Big(6), Blue)
Red4 == Pr(<<"4">>, Big(4), Red)
Red9 == Pr(<<"9">>, Big(9), Red)
Red1 == Pr(<<"1">>, Big(1), Red)
Green2 == Pr(<<"2">>, Big(2), Green)
Purple3 == Pr(<<"3">>, Big(3), Purple)
RedMax == Pr(MaxDigits, MaxOf(U32Bytes), Red)
RedOver == Pr(OverDigits, OverValue, Red)

SeqsUpTo(S, lo, hi) == UNION { [1..n -> S] : n \in lo..hi }

\* the rounds the lines of a text start with, and those that may follow
DocRounds ==
    { <<Blue3, Red4>>, <<Red9, Green2, Red4>>, <<Red4, Purple3, Green2>>,
      <<Purple3, Red4>>, <<RedMax, Red1>>, <<Blue3, RedOver>> }
MoreRounds == { <<Blue3, Red4>>, <<Purple3, Red4>> }
Scenario1 == << <<Blue3, Red4>>, <<Red1, Green2, Blue6>>, <<Green2>> >>

Bodies ==
    {<<>>, Scenario1} \cup { <<r>> : r \in DocRounds }
    \cup { <<r, q>> : r \in DocRounds, q \in MoreRounds }

Line(head, id, rounds) == [head |-> head, id |-> id, rounds |-> rounds]

\* a well-formed header before every body; a line that is no record at all;
\* an empty line; headers that are malformed or whose id is large
Lines ==
    { Line("ok", "pos", b) : b \in Bodies }
    \cup { Line(h, "pos", <<<<Blue3, Red4>>>>) :
             h \in {"nocolon", "notag", "noid", "junk", "empty"} }
    \cup { Line("ok", i, <<<<Blue3, Red4>>>>) : i \in {"max", "over"} }

\* the white space between two tokens, the white space before a line, and the
\* line break
Styles ==
    { [gap |-> <<" ">>, lead |-> <<>>, nl |-> <<"\n">>],
      [gap |-> <<>>, lead |-> <<" ", " ">>, nl |-> <<"\r", "\n">>],
      [gap |-> <<"\t", " ">>, lead |-> <<"\t">>, nl |-> <<"\n">>] }

Docs == [lines : SeqsUpTo(Lines, 0, MaxGames), style : Styles]

DigitChar(k) ==
    CASE k = 1 -> "1" [] k = 2 -> "2" [] k = 3 -> "3" [] k = 4 -> "4" [] k = 5 -> "5"
      [] k = 6 -> "6" [] k = 7 -> "7" [] k = 8 -> "8" [] k = 9 -> "9"

\* the id of the k-th line: its digits s and the value v they denote
IdOf(l, k) ==
    CASE l.id = "pos" -> [s |-> <<DigitChar(k)>>, v |-> Big(k)]
      [] l.id = "max" -> [s |-> MaxDigits, v |-> MaxOf(U32Bytes)]
      [] l.id = "over" -> [s |-> OverDigits, v |-> OverValue]

RECURSIVE Join(_, _)
\* the texts of parts with sep between them
Join(parts, sep) ==
    IF parts = <<>> THEN <<>>
    ELSE IF Len(parts) = 1 THEN parts[1]
    ELSE parts[1] \o sep \o Join(Tail(parts), sep)

RenderPair(p, g) == p.n \o g \o p.c
RenderRound(r, g) ==
    Join([k \in 1..Len(r) |-> RenderPair(r[k], g)], g \o <<",">> \o g)
RenderRounds(rs, g) ==
    Join([k \in 1..Len(rs) |-> RenderRound(rs[k], g)], g \o <<";">> \o g)

RenderHead(h, lead, g, id, body) ==
    CASE h = "ok" -> lead \o GameTag \o g \o id \o g \o <<":">> \o g \o body \o g
      [] h = "nocolon" -> lead \o GameTag \o <<" ">> \o id \o <<" ">> \o body
      [] h = "notag" -> lead \o <<"g", "a", "m", "e">> \o g \o id \o <<":">> \o g \o body
      [] h = "noid" -> lead \o GameTag \o g \o <<":">> \o g \o body
      [] h = "junk" -> <<"j", "u", "n", "k">>
      [] h = "empty" -> <<>>

RenderLine(l, k, st) ==
    RenderHead(l.head, st.lead, st.gap, IdOf(l, k).s, RenderRounds(l.rounds, st.gap))

Render(d) ==
    Join([k \in 1..Len(d.lines) |-> RenderLine(d.lines[k], k, d.style)], d.style.nl)

(***************************************************************************)
(* Records and Rgb values handed to the aggregations directly, as the      *)
(* tests build them.                                                       *)
(***************************************************************************)
Rgb(r, g, b) == [red |-> r, green |-> g, blue |-> b]
Game(id, rounds) == [id |-> id, rounds |-> rounds]

Within == Rgb(Big(MaxRed), Big(MaxGreen), Big(MaxBlue))
RedOut == Rgb(Big(MaxRed + 1), Big(MaxGreen), Big(MaxBlue))
GreenOut == Rgb(Big(MaxRed), Big(MaxGreen + 1), Big(MaxBlue))
BlueOut == Rgb(<<>>, <<>>, Big(MaxBlue + 1))
OnlyRed == Rgb(Big(MaxRed), <<>>, <<>>)
NoRed == Rgb(<<>>, Big(2), Big(3))
Wide == Rgb(MaxOf(U32Bytes), MaxOf(U32Bytes), Big(1))
Huge == Rgb(MaxOf(U32Bytes), MaxOf(U32Bytes), MaxOf(U32Bytes))

AggRounds ==
    { <<>>, <<Within>>, <<RedOut>>, <<GreenOut>>, <<BlueOut>>, <<OnlyRed>>,
      <<OnlyRed, NoRed>>, <<NoRed, OnlyRed>>, <<Within, RedOut>>,
      <<BlueOut, Within, Within>>, <<Wide>>, <<Huge>>, <<NoRed, Wide>> }

AggIds == { Big(1), Big(2), MaxOf(U32Bytes) }

AggGames ==
    { Game(Big(1), r) : r \in AggRounds } \cup { Game(i, <<>>) : i \in AggIds }
    \cup { Game(i, <<Within>>) : i \in AggIds } \cup { Game(Big(2), <<RedOut>>) }

CmpValues == { <<>>, Big(1), MaxOf(U32Bytes) }
CmpRgbs == { Rgb(r, g, b) : r \in CmpValues, g \in CmpValues, b \in CmpValues }

\* the pairs a round is made of when get_color_set is applied to one round
RoundPairs == { Blue3, Red4, Red9, Green2, Red1, RedMax }

\* the sequence s rearranged by the permutation p of its indices
Permuted(s, p) == [k \in 1..Len(s) |-> s[p[k]]]

(***************************************************************************)
(* The program: a text is handed to games_parser (as the tests do) and the *)
(* records to part1 and part2; the tests also apply get_color_set to the   *)
(* text of rounds, part1 to records they build, and compare Rgb values.    *)
(***************************************************************************)
VARIABLES overflow_checks, doc, input, pc, parsed, games, out1, out2,
          round, other, sets, lhs, rhs, cmp

vars == <<overflow_checks, doc, input, pc, parsed, games, out1, out2,
          round, other, sets, lhs, rhs, cmp>>

NoOutcome == [kind |-> "None", games |-> <<>>]
NoValue == [panic |-> FALSE, val |-> <<>>]
NoDoc == [lines |-> <<>>, style |-> [gap |-> <<>>, lead |-> <<>>, nl |-> <<>>]]
NoCmp == [ord |-> "", le |-> FALSE, ge |-> FALSE]

Idle ==
    /\ parsed = NoOutcome
    /\ out1 = NoValue
    /\ out2 = NoValue
    /\ sets = <<>>
    /\ cmp = NoCmp

Init ==
    /\ overflow_checks \in BOOLEAN
    /\ doc \in Docs
    /\ input = Render(doc)
    /\ pc = "input"
    /\ games = <<>>
    /\ round = <<>> /\ other = <<>> /\ lhs = RgbDefault /\ rhs = RgbDefault
    /\ Idle

\* let games = games_parser(&input)
Parse ==
    /\ pc = "input"
    /\ parsed' = games_parser(input, overflow_checks)
    /\ games' = parsed'.games
    /\ pc' = IF parsed'.kind = "Ok" THEN "parsed" ELSE "failed"
    /\ UNCHANGED <<overflow_checks, doc, input, out1, out2, round, other, sets,
                   lhs, rhs, cmp>>

\* part1(&games)
Part1 ==
    /\ pc = "parsed"
    /\ out1' = part1(games, overflow_checks)
    /\ pc' = "part1"
    /\ UNCHANGED <<overflow_checks, doc, input, parsed, games, out2, round, other,
                   sets, lhs, rhs, cmp>>

\* part2(&games)
Part2 ==
    /\ pc = "parsed"
    /\ out2' = part2(games, overflow_checks)
    /\ pc' = "part2"
    /\ UNCHANGED <<overflow_checks, doc, input, parsed, games, out1, round, other,
                   sets, lhs, rhs, cmp>>

Next == Parse \/ Part1 \/ Part2

Spec == Init /\ [][Next]_vars

\* get_color_set applied to the text of one round and to the text of the same
\* pairs in another order
InitRound ==
    /\ overflow_checks \in BOOLEAN
    /\ round \in SeqsUpTo(RoundPairs, 1, MaxPairs)
    /\ \E p \in Permutations(1..Len(round)) : other = Permuted(round, p)
    /\ pc = "round"
    /\ doc = NoDoc /\ input = <<>> /\ games = <<>>
    /\ lhs = RgbDefault /\ rhs = RgbDefault
    /\ Idle

GetColorSet ==
    /\ pc = "round"
    /\ sets' = <<get_color_set(RenderRound(round, <<" ">>), overflow_checks),
                 get_color_set(RenderRound(other, <<" ">>), overflow_checks)>>
    /\ pc' = "folded"
    /\ UNCHANGED <<overflow_checks, doc, input, parsed, games, out1, out2, round,
                   other, lhs, rhs, cmp>>

NextRound == GetColorSet

SpecRound == InitRound /\ [][NextRound]_vars

\* part1 and part2 applied to records built directly, and two Rgb values compared
InitAgg ==
    /\ overflow_checks \in BOOLEAN
    /\ \/ /\ games \in SeqsUpTo(AggGames, 0, MaxGames)
          /\ lhs = RgbDefault /\ rhs = RgbDefault
          /\ pc = "parsed"
       \/ /\ games = <<>>
          /\ lhs \in CmpRgbs /\ rhs \in CmpRgbs
          /\ pc = "values"
    /\ doc = NoDoc /\ input = <<>> /\ round = <<>> /\ other = <<>>
    /\ Idle

\* a.partial_cmp(&b), a <= b, a >= b
Compare ==
    /\ pc = "values"
    /\ cmp' = [ord |-> partial_cmp(lhs, rhs), le |-> le(lhs, rhs), ge |-> ge(lhs, rhs)]
    /\ pc' = "compared"
    /\ UNCHANGED <<overflow_checks, doc, input, parsed, games, out1, out2, round,
                   other, sets, lhs, rhs>>

NextAgg == Part1 \/ Part2 \/ Compare

SpecAgg == InitAgg /\ [][NextAgg]_vars

(***************************************************************************)
(* What a text holds, read off its description (not off its characters).   *)
(***************************************************************************)
Colors == {Red, Green, Blue}

\* a pair the grammar of the program accepts: a color word and a 32-bit count
PairOK(p) == p.c \in Colors /\ Fits(p.v, U32Bytes)

\* the number of pairs of round r before its first pair that is not accepted
GoodPairs(r) == Cardinality({ j \in 1..Len(r) : \A m \in 1..j : PairOK(r[m]) })

\* the number of rounds of rs before the first round with such a pair
GoodRounds(rs) ==
    Cardinality({ j \in 1..Len(rs) : \A m \in 1..j : GoodPairs(rs[m]) = Len(rs[m]) })

\* the pairs that end up in rounds: the rounds before the first pair that is not
\* accepted, and the pairs before it in its own round, if any
Consumed(rs) ==
    IF GoodRounds(rs) < Len(rs) /\ GoodPairs(rs[GoodRounds(rs) + 1]) > 0
    THEN SubSeq(rs, 1, GoodRounds(rs))
         \o << SubSeq(rs[GoodRounds(rs) + 1], 1, GoodPairs(rs[GoodRounds(rs) + 1])) >>
    ELSE SubSeq(rs, 1, GoodRounds(rs))

HeadOK(l, k) == l.head = "ok" /\ Fits(IdOf(l, k).v, U32Bytes)

\* line k is a record from its first to its last character
Complete(l, k) == HeadOK(l, k) /\ GoodRounds(l.rounds) = Len(l.rounds)

GoodLines(ls) ==
    Cardinality({ j \in 1..Len(ls) : \A m \in 1..j : Complete(ls[m], m) })

\* the number of lines of which the longest prefix of the text that matches
\* record (newline record)* holds a record
Taken(ls) ==
    IF GoodLines(ls) < Len(ls) /\ HeadOK(ls[GoodLines(ls) + 1], GoodLines(ls) + 1)
    THEN GoodLines(ls) + 1
    ELSE GoodLines(ls)

RECURSIVE ColorSum(_, _)
\* the mathematical sum of the counts of the pairs of ps whose color word is c
ColorSum(ps, c) ==
    IF ps = <<>> THEN <<>>
    ELSE BigAdd(IF Head(ps).c = c THEN Head(ps).v ELSE <<>>, ColorSum(Tail(ps), c))

MathRgb(ps) == Rgb(ColorSum(ps, Red), ColorSum(ps, Green), ColorSum(ps, Blue))

Overflows(ps) == \E c \in Colors : ~Fits(ColorSum(ps, c), U32Bytes)

Low32(x) ==
    Rgb(Wrap(x.red, U32Bytes), Wrap(x.green, U32Bytes), Wrap(x.blue, U32Bytes))

\* the record of line k made of the rounds rs of pairs
RecordOf(l, k, rs) ==
    Game(IdOf(l, k).v, [j \in 1..Len(rs) |-> Low32(MathRgb(rs[j]))])

\* the records of the longest prefix that matches record (newline record)*
PrefixGames(d) ==
    [k \in 1..Taken(d.lines) |-> RecordOf(d.lines[k], k, Consumed(d.lines[k].rounds))]

\* a round of that prefix has a color whose counts add up to more than a u32
PrefixOverflows(d) ==
    \E k \in 1..Taken(d.lines) :
        \E j \in 1..Len(Consumed(d.lines[k].rounds)) :
            Overflows(Consumed(d.lines[k].rounds)[j])

\* every line is a header and rounds of pairs with one of the three color words
WellFormed(d) ==
    /\ Len(d.lines) >= 1
    /\ \A k \in 1..Len(d.lines) :
         /\ d.lines[k].head = "ok"
         /\ \A j \in 1..Len(d.lines[k].rounds) :
              \A m \in 1..Len(d.lines[k].rounds[j]) :
                  d.lines[k].rounds[j][m].c \in Colors

\* every id and count of the text is at most 4294967295
AllFit(d) ==
    \A k \in 1..Len(d.lines) :
        /\ Fits(IdOf(d.lines[k], k).v, U32Bytes)
        /\ \A j \in 1..Len(d.lines[k].rounds) :
             \A m \in 1..Len(d.lines[k].rounds[j]) :
                 Fits(d.lines[k].rounds[j][m].v, U32Bytes)

\* every record of the text as a whole
AllGames(d) ==
    [k \in 1..Len(d.lines) |-> RecordOf(d.lines[k], k, d.lines[k].rounds)]

AnyOverflows(d) ==
    \E k \in 1..Len(d.lines) :
        \E j \in 1..Len(d.lines[k].rounds) : Overflows(d.lines[k].rounds[j])

Returned == parsed.kind # "None"

RECURSIVE MathSum(_)
\* the mathematical sum of the values of vals
MathSum(vals) == IF vals = <<>> THEN <<>> ELSE BigAdd(Head(vals), MathSum(Tail(vals)))

\* what an operation of n bytes makes of the mathematical result v
Machine(v, n) ==
    IF Fits(v, n) THEN [panic |-> FALSE, val |-> v]
    ELSE IF overflow_checks THEN [panic |-> TRUE, val |-> <<>>]
    ELSE [panic |-> FALSE, val |-> Wrap(v, n)]

(***************************************************************************)
(* C1  Parsing is all-or-nothing: when a line of the text is no record     *)
(* (its header is malformed, or it is other text after the last record),   *)
(* games_parser returns a parse error and never a list of records.         *)
(***************************************************************************)
Faulty(d) ==
    \E k \in 1..Len(d.lines) : d.lines[k].head \in {"nocolon", "notag", "noid", "junk"}

C1_AllOrNothing == (Returned /\ Faulty(doc)) => parsed.kind = "Err"

(***************************************************************************)
(* C2  When the header of the first line lacks the ':' after the game id,  *)
(* games_parser fails with a parse error and yields no records.            *)
(***************************************************************************)
C2_MissingColon ==
    (Returned /\ Len(doc.lines) >= 1 /\ doc.lines[1].head = "nocolon")
        => (parsed.kind = "Err" /\ parsed.games = <<>>)

(***************************************************************************)
(* C3  A pair whose color word is none of red, green and blue is parsed    *)
(* and only its count is left out: the other pairs and rounds of the       *)
(* record and the later records are parsed as usual, without an error.     *)
(***************************************************************************)
HasUnknownColor(d) ==
    \E k \in 1..Len(d.lines) :
        \E j \in 1..Len(d.lines[k].rounds) :
            \E m \in 1..Len(d.lines[k].rounds[j]) :
                d.lines[k].rounds[j][m].c \notin Colors

HeadersOK(d) == \A k \in 1..Len(d.lines) : d.lines[k].head = "ok"

C3_UnknownColorDropped ==
    (Returned /\ HeadersOK(doc) /\ AllFit(doc) /\ ~AnyOverflows(doc)
              /\ HasUnknownColor(doc))
        => (parsed.kind = "Ok" /\ parsed.games = AllGames(doc))

(***************************************************************************)
(* C6  A well-formed text of n >= 1 records, separated by LF or CRLF, with *)
(* optional white space around the tokens and before "Game" and without a  *)
(* line break at its end, parses to exactly n records in the order of the  *)
(* text, each with its own id and one Rgb for each of its rounds.          *)
(***************************************************************************)
C6_Original ==
    (Returned /\ WellFormed(doc))
        => /\ parsed.kind = "Ok"
           /\ Len(parsed.games) = Len(doc.lines)
           /\ \A k \in 1..Len(doc.lines) :
                /\ parsed.games[k].id = IdOf(doc.lines[k], k).v
                /\ Len(parsed.games[k].rounds) = Len(doc.lines[k].rounds)

\* C6 as amended: such a text whose ids and counts are at most 4294967295
\* parses to exactly its n records in order, each with its own id and, for each
\* round in order, the Rgb of the per-color sums modulo 2^32; except that a
\* build with overflow checks panics when the counts of one color of a round
\* add up to more than 4294967295.
C6_WellFormed ==
    (Returned /\ WellFormed(doc) /\ AllFit(doc))
        => IF overflow_checks /\ AnyOverflows(doc)
           THEN parsed.kind = "Panic"
           ELSE parsed.kind = "Ok" /\ parsed.games = AllGames(doc)

C6_Witness ==
    /\ pc = "parsed"
    /\ WellFormed(doc) /\ AllFit(doc)
    /\ Len(doc.lines) = MaxGames
    /\ doc.style.nl = <<"\r", "\n">> /\ doc.style.lead # <<>>
    /\ Len(parsed.games) = MaxGames
    /\ \E k \in 1..Len(doc.lines) : Len(parsed.games[k].rounds) = Len(Scenario1)

(***************************************************************************)
(* C10  games_parser returns a successful result for every text: the       *)
(* records of the longest prefix that matches record (newline record)*,    *)
(* the rest of the text dropped; no records when the first line is no      *)
(* record; a record with no rounds when its first pair is malformed, and   *)
(* part1 counts that record.                                               *)
(***************************************************************************)
EmptyRounds == \A k \in 1..Len(games) : games[k].rounds = <<>>

C10_Original ==
    /\ Returned => (parsed.kind = "Ok" /\ parsed.games = PrefixGames(doc))
    /\ (pc = "part1" /\ EmptyRounds)
          => out1 = Machine(MathSum([k \in 1..Len(games) |-> games[k].id]), U32Bytes)

\* C10 as amended: games_parser never returns a parse error.  It returns the
\* records of the longest prefix that matches record (newline record)* (per-color
\* sums modulo 2^32), the rest of the text dropped, as described; except that a
\* build with overflow checks panics when, in a round of that prefix, the counts
\* of one color add up to more than 4294967295.
C10_NeverErr ==
    /\ Returned =>
         /\ parsed.kind # "Err"
         /\ IF overflow_checks /\ PrefixOverflows(doc)
            THEN parsed.kind = "Panic"
            ELSE parsed.kind = "Ok" /\ parsed.games = PrefixGames(doc)
    /\ (pc = "part1" /\ EmptyRounds)
          => out1 = Machine(MathSum([k \in 1..Len(games) |-> games[k].id]), U32Bytes)

C10_Witness ==
    /\ pc = "part1"
    /\ Len(doc.lines) = MaxGames
    /\ Len(games) = 1
    /\ doc.lines[1].rounds # <<>> /\ games[1].rounds = <<>>
    /\ out1.val = games[1].id

(***************************************************************************)
(* C7  The aggregate of a round is the per-color sum of its pairs: the     *)
(* counts of a color that occurs twice are added, a color that does not    *)
(* occur stays 0, and the pairs in another order give the same Rgb.        *)
(***************************************************************************)
C7_Original ==
    pc = "folded" =>
        \A n \in 1..2 : ~sets[n].panic /\ sets[n].out = <<MathRgb(round)>>

\* C7 as amended: the sums are 32-bit sums.  The aggregate is the per-color
\* sum, the same for the pairs in any order, as long as every sum is at most
\* 4294967295; when a sum is larger, a build with overflow checks panics and
\* a build without them keeps the sum modulo 2^32, in any order of the pairs.
C7_PerColorSum ==
    pc = "folded" =>
        \A n \in 1..2 :
            /\ sets[n].ok /\ sets[n].rest = <<>>
            /\ IF overflow_checks /\ Overflows(round)
               THEN sets[n].panic
               ELSE ~sets[n].panic /\ sets[n].out = <<Low32(MathRgb(round))>>

C7_Witness ==
    /\ pc = "folded"
    /\ Len(round) = MaxPairs /\ other # round
    /\ round[1].c = round[MaxPairs].c /\ round[1].c # round[2].c
    /\ ~Overflows(round)
    /\ \E c \in {"red", "green", "blue"} : sets[1].out[1][c] = <<>>
    /\ sets[1].out = sets[2].out

(***************************************************************************)
(* C4  part1 returns exactly the sum of the ids of the records all of      *)
(* whose rounds have red <= 12, green <= 13 and blue <= 14: a record       *)
(* without rounds is counted, a record with one round above the ceiling    *)
(* in one component is not.                                                *)
(***************************************************************************)
InCeiling(x) ==
    /\ BigLeq(x.red, Big(MaxRed))
    /\ BigLeq(x.green, Big(MaxGreen))
    /\ BigLeq(x.blue, Big(MaxBlue))

Feasible(g) == \A k \in 1..Len(g.rounds) : InCeiling(g.rounds[k])

RECURSIVE FeasibleSum(_)
\* the mathematical sum of the ids of the feasible records of gs
FeasibleSum(gs) ==
    IF gs = <<>> THEN <<>>
    ELSE BigAdd(IF Feasible(Head(gs)) THEN Head(gs).id ELSE <<>>, FeasibleSum(Tail(gs)))

MaxOver(rounds, field) ==
    CHOOSE v \in {<<>>} \cup { rounds[k][field] : k \in 1..Len(rounds) } :
        \A k \in 1..Len(rounds) : BigLeq(rounds[k][field], v)

ProductOf(g) ==
    BigMul(BigMul(MaxOver(g.rounds, "red"), MaxOver(g.rounds, "green")),
           MaxOver(g.rounds, "blue"))

MathTotal(gs) == MathSum([k \in 1..Len(gs) |-> ProductOf(gs[k])])

C5_Original ==
    pc = "part2" => out2 = [panic |-> FALSE, val |-> MathTotal(games)]

\* what part2 returns in every case: the sum modulo 2^64, or a panic of a
\* build with overflow checks when the sum is 2^64 or more
C5_Modulo64 ==
    pc = "part2" => out2 = Machine(MathTotal(games), U64Bytes)

(***************************************************************************)
(* C8  part2 never overflows: the product of the three maxima of every     *)
(* record and the sum over the records fit the 64-bit accumulator, and     *)
(* part2 neither wraps nor panics.                                         *)
(***************************************************************************)
C8_NoOverflow ==
    pc = "part2" =>
        /\ \A k \in 1..Len(games) : Fits(ProductOf(games[k]), U64Bytes)
        /\ Fits(MathTotal(games), U64Bytes)
        /\ ~out2.panic

(***************************************************************************)
(* C9  The comparison on Rgb is the component-wise partial order:          *)
(* partial_cmp is Equal iff the three components are equal, Less iff every *)
(* component of a is <= that of b and a # b, and None otherwise, never     *)
(* Greater; a <= b iff a is component-wise within b (so a <= a), and       *)
(* a >= b only when a = b.                                                 *)
(***************************************************************************)
\* the place of a value of CmpValues in their order
Rank(v) == IF v = <<>> THEN 0 ELSE IF v = Big(1) THEN 1 ELSE 2

Leq3(a, b) ==
    /\ Rank(a.red) <= Rank(b.red)
    /\ Rank(a.green) <= Rank(b.green)
    /\ Rank(a.blue) <= Rank(b.blue)

C9_PartialOrder ==
    pc = "compared" =>
        /\ cmp.ord = (IF lhs = rhs THEN "Equal"
                      ELSE IF Leq3(lhs, rhs) THEN "Less" ELSE "None")
        /\ cmp.le = Leq3(lhs, rhs)
        /\ cmp.ge = (lhs = rhs)

C9_Witness ==
    /\ pc = "compared"
    /\ Leq3(rhs, lhs) /\ lhs # rhs
    /\ cmp.ord = "None" /\ ~cmp.ge /\ ~cmp.le

=============================================================================
